---- MODULE Spec2Model ----
(***************************************************************************)
(* Model of deepdub/deepdub_clusterer.py: the DeepdubClusterer object, its *)
(* record collection (sentence_df) and its three stages get_embeddings,    *)
(* cluster and generate_scatter_3d.  The embedding network, the audio      *)
(* reader, KMeans and pandas are external; they are modelled by what the   *)
(* calls made in this file observe of them.                                *)
(***************************************************************************)
EXTENDS Integers, Sequences, FiniteSets, TLC

VARIABLES pc, weights, weight_seen, files, sentence_df, input_df,
          np_random, py_random, result, completed, remembered, compared

vars == << pc, weights, weight_seen, files, sentence_df, input_df,
           np_random, py_random, result, completed, remembered, compared >>

(* pc           "new" before __init__, then "ready", or "failed" when it raised *)
(* weights      the weight file loaded into self.model.m                        *)
(* weight_seen  what load_weights found at its path ("unread" before)           *)
(* files        the hashes whose {hash}_vocals.wav segment is on disk           *)
(* sentence_df  self.sentence_df, the caller's frame, changed in place          *)
(* np_random    numpy's process-wide generator; py_random: that of `random`     *)
(* result       how the last call ended: its return value or its exception      *)
(* Bookkeeping: input_df is the frame as handed to __init__, completed the      *)
(* stages that have returned normally, remembered an earlier fit kept for       *)
(* comparison, compared whether the last call was a re-run of the kept fit.     *)

-----------------------------------------------------------------------------
(* Bounds and program constants *)

\* largest number of utterance records in a collection
MaxRecords == 2

\* size of the modelled random-generator state space
RngMod == 3

\* embedding.reshape((512,))
EmbedDim == 512

\* np.random.seed(123); random.seed(123); def cluster(..., random_state=123)
DefaultSeed == 123

Hashes == 1 .. MaxRecords

Seeds == {DefaultSeed, DefaultSeed + 1}

DefaultPath == "./pretrained_models/ResCNN_triplet_training_checkpoint_265.h5"

CustomPath == "custom.h5"

None == "None"

-----------------------------------------------------------------------------
(* Data: cells, columns, the record collection *)

Vec(d, v) == [kind |-> "vec", dim |-> d, val |-> v]

NaN == [kind |-> "nan", dim |-> 0, val |-> 0]

\* voice positions of the modelled speakers (two well-separated groups)
Vals == {0, 8}

\* a column of the frame: present or not, and its cells in record order
Col(cells) == [present |-> TRUE, cells |-> cells]

NoCol == [present |-> FALSE, cells |-> << >>]

SeqsOfLen(S, n) == [1 .. n -> S]

SentenceOf(h) == h * 10

\* the frames built upstream (DeepdubSentence.get_sentences): a hash and a
\* sentence per record, the hashes unique and named in record order
UpstreamFrames ==
  {[hash |-> [i \in 1 .. n |-> i], sentence |-> [i \in 1 .. n |-> SentenceOf(i)],
    embedding |-> NoCol, label |-> NoCol] : n \in 0 .. MaxRecords}

\* cells a caller-supplied embedding column may hold: 512-vectors, or a
\* placeholder of another shape
InputCells == {Vec(EmbedDim, v) : v \in Vals} \cup {Vec(1, 0)}

\* a frame handed to the constructor that already carries an embedding column
EmbeddedFrames ==
  UNION {{[f EXCEPT !.embedding = Col(c)] : c \in SeqsOfLen(InputCells, Len(f.hash))}
         : f \in UpstreamFrames}

-----------------------------------------------------------------------------
(* Results of a call *)

Ok(op, ret) ==
  [op |-> op, n_clusters |-> 0, ok |-> TRUE, exc |-> "-", at |-> "-", rec |-> 0, ret |-> ret]

NoModel == [n_clusters |-> 0, random_state |-> 0, centers |-> << >>, labels |-> << >>]

\* a fit kept for comparison with later ones: its inputs and its labels
NoFit == [kept |-> FALSE, embedding |-> << >>, kmeans |-> NoModel]

NoReturn == [df |-> "-", kmeans |-> NoModel]

Raised(op, exc, at, rec) ==
  [op |-> op, n_clusters |-> 0, ok |-> FALSE, exc |-> exc, at |-> at, rec |-> rec,
   ret |-> NoReturn]

-----------------------------------------------------------------------------
(* Random generators *)

RandomState(seed) == seed % RngMod

NextRandom(s) == (s + 1) % RngMod

-----------------------------------------------------------------------------
Init ==
  /\ pc = "new"
  /\ weights = None
  /\ weight_seen = "unread"
  /\ files \in SUBSET Hashes
  /\ sentence_df \in UpstreamFrames \cup EmbeddedFrames
  /\ input_df = sentence_df
  /\ np_random = RandomState(DefaultSeed)
  /\ py_random = RandomState(DefaultSeed)
  /\ result = Ok("-", NoReturn)
  /\ completed = {}
  /\ remembered = NoFit
  /\ compared = FALSE

-----------------------------------------------------------------------------
(* __init__ *)

\* what load_weights may find at a path
WeightFileStates == {"ok", "missing", "incompatible"}

\* self.model.m.load_weights(path, by_name=True) on a file found in state
\* found: raises unless the file holds loadable weights
LoadWeights(path, found) ==
  IF found = "ok"
  THEN [ok |-> TRUE, exc |-> "-", seen |-> found]
  ELSE [ok |-> FALSE, exc |-> IF found = "missing" THEN "OSError" ELSE "ValueError",
        seen |-> found]

\* the weight file __init__ loads for a given model_path argument
WeightPath(model_path) == IF model_path # None THEN model_path ELSE DefaultPath

\* variant: only an explicit model_path is loaded at construction, the default
\* weights being left for the first use
InitLoadLazy(model_path, found) ==
  IF model_path # None
  THEN LoadWeights(WeightPath(model_path), found)
  ELSE [ok |-> TRUE, exc |-> "-", seen |-> "unread"]

\* both branches of __init__ load the weights before it returns
InitLoad(model_path, found) == LoadWeights(WeightPath(model_path), found)

DeepdubClusterer_init(model_path, found) ==
  /\ pc = "new"
  /\ LET load == InitLoad(model_path, found) IN
       /\ weight_seen' = load.seen
       /\ IF load.ok
          THEN /\ pc' = "ready"
               /\ weights' = WeightPath(model_path)
               /\ result' = Ok("__init__", NoReturn)
          ELSE /\ pc' = "failed"
               /\ weights' = None
               /\ result' = Raised("__init__", load.exc, "load_weights", 0)
  /\ compared' = FALSE
  /\ UNCHANGED << files, sentence_df, input_df, np_random, py_random, completed, remembered >>

Construct == \E model_path \in {None, CustomPath}, found \in WeightFileStates :
               DeepdubClusterer_init(model_path, found)

-----------------------------------------------------------------------------
(* get_embeddings *)

\* f'{self.AUDIO_OUTPUT_DIR}/{h}_vocals.wav'
SegmentPath(h) == << "./output_dir", "project", "audio_segments", h, "_vocals.wav" >>

\* read_mfcc succeeds exactly when the segment file is on disk
SegmentExists(h) == h \in files

\* whether the bare name `model` of model.m.predict resolves: the method has
\* no such local and the module binds no such global
ModelNameBound == FALSE

\* the vector the network returns for a segment (its speaker's voice position)
Predict(h) == (h % 2) * 8

\* __generate_embedding(h) with the process-wide `random` state rng
GenerateEmbedding(h, rng) ==
  IF ~SegmentExists(h)
  THEN [ok |-> FALSE, cell |-> NaN, exc |-> "FileNotFoundError", at |-> "read_mfcc", rng |-> rng]
  ELSE IF ~ModelNameBound
  THEN [ok |-> FALSE, cell |-> NaN, exc |-> "NameError", at |-> "model.m.predict",
        rng |-> NextRandom(rng)]
  ELSE [ok |-> TRUE, cell |-> Vec(EmbedDim, Predict(h)), exc |-> "-", at |-> "-",
        rng |-> NextRandom(rng)]

\* sentence_df[["hash"]].applymap(f): f on each hash in record order; the first
\* exception ends the call
RECURSIVE ApplyMap(_, _, _, _)
ApplyMap(hs, i, rng, acc) ==
  IF i > Len(hs)
  THEN [ok |-> TRUE, cells |-> acc, exc |-> "-", at |-> "-", rec |-> 0, rng |-> rng]
  ELSE LET g == GenerateEmbedding(hs[i], rng) IN
       IF g.ok
       THEN ApplyMap(hs, i + 1, g.rng, Append(acc, g.cell))
       ELSE [ok |-> FALSE, cells |-> acc, exc |-> g.exc, at |-> g.at, rec |-> i, rng |-> g.rng]

\* variant: the column is written record by record while the map runs, the
\* records not reached left missing
AssignEmbeddingPerRecord(df, r) ==
  [df EXCEPT !.embedding =
     Col([i \in 1 .. Len(df.hash) |-> IF i <= Len(r.cells) THEN r.cells[i] ELSE NaN])]

\* self.sentence_df[["embedding"]] = <the applymap result>: evaluated only when
\* applymap returned
AssignEmbedding(df, r) ==
  IF r.ok THEN [df EXCEPT !.embedding = Col(r.cells)] ELSE df

GetEmbeddings ==
  /\ pc = "ready"
  /\ LET r == ApplyMap(sentence_df.hash, 1, py_random, << >>) IN
       /\ py_random' = r.rng
       /\ sentence_df' = AssignEmbedding(sentence_df, r)
       /\ result' = IF r.ok
                    THEN Ok("get_embeddings", [df |-> "self.sentence_df", kmeans |-> NoModel])
                    ELSE Raised("get_embeddings", r.exc, r.at, r.rec)
       /\ completed' = IF r.ok THEN completed \cup {"get_embeddings"} ELSE completed
  /\ compared' = FALSE
  /\ UNCHANGED << pc, weights, weight_seen, files, input_df, np_random, remembered >>

-----------------------------------------------------------------------------
(* KMeans(n_clusters, random_state).fit(embeddings), on one coordinate *)

Abs(x) == IF x < 0 THEN 0 - x ELSE x

\* a centre is the mean s / c of its members
Centre(s, c) == [s |-> s, c |-> c]

\* whether x is strictly nearer to centre a than to centre b
Closer(x, a, b) == Abs(x * a.c - a.s) * b.c < Abs(x * b.c - b.s) * a.c

\* index of the nearest centre, the lowest one on a tie
Nearest(x, centres) ==
  CHOOSE j \in 1 .. Len(centres) :
    /\ \A m \in 1 .. (j - 1) : Closer(x, centres[j], centres[m])
    /\ \A m \in (j + 1) .. Len(centres) : ~Closer(x, centres[m], centres[j])

\* labels are the 0-based indices of the nearest centres
AssignPoints(X, centres) == [i \in 1 .. Len(X) |-> Nearest(X[i], centres) - 1]

RECURSIVE SumOver(_, _)
SumOver(X, I) ==
  IF I = {} THEN 0 ELSE LET i == CHOOSE i \in I : TRUE IN X[i] + SumOver(X, I \ {i})

\* the mean of each cluster's members; a cluster without members keeps its centre
UpdateCentres(X, labels, centres) ==
  [j \in 1 .. Len(centres) |->
     LET members == {i \in 1 .. Len(X) : labels[i] = j - 1} IN
     IF members = {} THEN centres[j] ELSE Centre(SumOver(X, members), Cardinality(members))]

RECURSIVE Lloyd(_, _, _)
Lloyd(X, centres, fuel) ==
  LET labels == AssignPoints(X, centres)
      moved == UpdateCentres(X, labels, centres)
  IN IF fuel = 0 \/ AssignPoints(X, moved) = labels
     THEN [centers |-> moved, labels |-> labels]
     ELSE Lloyd(X, moved, fuel - 1)

\* the initial centres: k distinct samples drawn with the fit's generator
RECURSIVE PickCentres(_, _, _, _, _)
PickCentres(X, rem, k, rs, acc) ==
  IF k = 0
  THEN [centres |-> acc, rng |-> rs]
  ELSE LET at == (rs % Len(rem)) + 1 IN
       PickCentres(X, [i \in 1 .. (Len(rem) - 1) |-> IF i < at THEN rem[i] ELSE rem[i + 1]],
                   k - 1, NextRandom(rs), Append(acc, Centre(X[rem[at]], 1)))

\* fit on the samples X (1 <= k <= Len(X)) with generator state rs
KMeansFit(X, k, rs) ==
  LET init == PickCentres(X, [i \in 1 .. Len(X) |-> i], k, rs, << >>)
      fit == Lloyd(X, init.centres, Len(X))
  IN [centers |-> fit.centers, labels |-> fit.labels, rng |-> init.rng]

-----------------------------------------------------------------------------
(* cluster *)

\* variant: a missing column reads as a column of zero vectors
EmbeddingColumnOrDefault(df) ==
  [ok |-> TRUE,
   cells |-> IF df.embedding.present THEN df.embedding.cells
             ELSE [i \in 1 .. Len(df.hash) |-> Vec(EmbedDim, 0)]]

\* self.sentence_df["embedding"]: KeyError when the frame has no such column
EmbeddingColumn(df) ==
  IF df.embedding.present
  THEN [ok |-> TRUE, cells |-> df.embedding.cells]
  ELSE [ok |-> FALSE, cells |-> << >>]

\* whether the listed vectors stack into a rectangular matrix
Rectangular(cells) ==
  \A i, j \in 1 .. Len(cells) :
    cells[i].kind = "vec" /\ cells[j].kind = "vec" /\ cells[i].dim = cells[j].dim

\* where stacking vectors of unequal length raises: in np.array itself, or (an
\* object array) in the validation KMeans.fit starts with, as numpy decides
RaggedSites == {"np.array", "KMeans.fit"}

\* variant: random_state is not handed to KMeans, which then draws from the
\* process-wide numpy generator
ClusterRandomGlobal(random_state) == [rs |-> np_random, global |-> TRUE]

\* KMeans(random_state=random_state): an integer seeds a generator of the
\* fit's own, and the process-wide numpy generator is left alone
ClusterRandom(random_state) == [rs |-> RandomState(random_state), global |-> FALSE]

\* variant: labels numbered from 1
AssignLabelOneBased(df, labels) ==
  [df EXCEPT !.label = Col([i \in 1 .. Len(labels) |-> labels[i] + 1])]

\* variant: the labels are written under the wrong column key
AssignLabelWrongColumn(df, labels) ==
  [df EXCEPT !.label = Col(labels), !.sentence = labels]

\* self.sentence_df['label'] = kmeans.labels_
AssignLabel(df, labels) == [df EXCEPT !.label = Col(labels)]

\* the outcome of lines 89-93 for the frame df: a fitted model or the exception
ClusterFit(df, n_clusters, random_state, site) ==
  LET col == EmbeddingColumn(df)
      X == [i \in 1 .. Len(col.cells) |-> col.cells[i].val]
      gen == ClusterRandom(random_state)
  IN IF ~col.ok
     THEN [ok |-> FALSE, exc |-> "KeyError", at |-> "sentence_df[embedding]"]
     ELSE IF ~Rectangular(col.cells)
     THEN [ok |-> FALSE, exc |-> "ValueError", at |-> site]
     ELSE IF Len(X) = 0 \/ n_clusters <= 0 \/ n_clusters > Len(X)
     THEN [ok |-> FALSE, exc |-> "ValueError", at |-> "KMeans.fit"]
     ELSE LET fit == KMeansFit(X, n_clusters, gen.rs) IN
          [ok |-> TRUE, exc |-> "-", at |-> "-",
           rng |-> IF gen.global THEN fit.rng ELSE np_random,
           kmeans |-> [n_clusters |-> n_clusters, random_state |-> random_state,
                       centers |-> fit.centers, labels |-> fit.labels]]

\* whether the kept fit was made on the embeddings of df with the arguments of
\* the fit kmeans
SameCall(fit, df, kmeans) ==
  /\ fit.kept
  /\ fit.embedding = df.embedding.cells
  /\ fit.kmeans.n_clusters = kmeans.n_clusters
  /\ fit.kmeans.random_state = kmeans.random_state

Cluster(n_clusters, random_state) ==
  /\ pc = "ready"
  /\ \E site \in (IF EmbeddingColumn(sentence_df).ok
                      /\ ~Rectangular(EmbeddingColumn(sentence_df).cells)
                   THEN RaggedSites ELSE {"-"}) :
       \E f \in {ClusterFit(sentence_df, n_clusters, random_state, site)} :
         IF f.ok
         THEN /\ sentence_df' = AssignLabel(sentence_df, f.kmeans.labels)
              /\ np_random' = f.rng
              /\ result' = [Ok("cluster", [df |-> "self.sentence_df", kmeans |-> f.kmeans])
                            EXCEPT !.n_clusters = n_clusters]
              /\ completed' = completed \cup {"cluster"}
              /\ \E keep \in BOOLEAN :
                   /\ remembered' = IF keep
                                    THEN [kept |-> TRUE,
                                          embedding |-> sentence_df.embedding.cells,
                                          kmeans |-> f.kmeans]
                                    ELSE remembered
                   /\ compared' = (~keep /\ SameCall(remembered, sentence_df, f.kmeans))
         ELSE /\ result' = [Raised("cluster", f.exc, f.at, 0) EXCEPT !.n_clusters = n_clusters]
              /\ compared' = FALSE
              /\ UNCHANGED << sentence_df, np_random, completed, remembered >>
  /\ UNCHANGED << pc, weights, weight_seen, files, input_df, py_random >>

ClusterCall == \E n_clusters \in 0 .. (MaxRecords + 1), random_state \in Seeds :
                 Cluster(n_clusters, random_state)

-----------------------------------------------------------------------------
(* generate_scatter_3d *)

\* def generate_scatter_3d(): takes no parameter.  Called on the instance the
\* bound call passes one (TypeError before the body runs); called on the
\* class the body runs up to its first use of the unbound name self.
GenerateScatter3d(how) ==
  /\ pc = "ready"
  /\ result' = IF how = "instance"
               THEN Raised("generate_scatter_3d", "TypeError", "call", 0)
               ELSE Raised("generate_scatter_3d", "NameError", "self.sentence_df", 0)
  /\ UNCHANGED << pc, weights, weight_seen, files, sentence_df, input_df,
                  np_random, py_random, completed, remembered >>
  /\ compared' = FALSE

Visualize == \E how \in {"instance", "class"} : GenerateScatter3d(how)

Next == Construct \/ GetEmbeddings \/ ClusterCall \/ Visualize

Spec == Init /\ [][Next]_vars

\* the object built on a frame that comes straight from upstream
InitUpstream == Init /\ sentence_df \in UpstreamFrames

SpecUpstream == InitUpstream /\ [][Next]_vars

-----------------------------------------------------------------------------
(* Properties *)

NRecords == Len(sentence_df.hash)

HasEmbedding == sentence_df.embedding.present

HasLabel == sentence_df.label.present

AllSegmentsExist == \A i \in 1 .. NRecords : SegmentExists(sentence_df.hash[i])

\* C1: whenever get_embeddings has run on a collection whose segment files all
\* exist, it returned normally and the collection carries an embedding column
\* with one 512-vector per record, the vector of record i being that of hash i.
C1_GetEmbeddingsSucceeds ==
  (result.op = "get_embeddings" /\ AllSegmentsExist) =>
    /\ result.ok
    /\ result.ret.df = "self.sentence_df"
    /\ HasEmbedding
    /\ Len(sentence_df.embedding.cells) = NRecords
    /\ \A i \in 1 .. NRecords :
         sentence_df.embedding.cells[i] = Vec(EmbedDim, Predict(sentence_df.hash[i]))

\* C2: a successful cluster call made on the same embeddings with the same
\* n_clusters and the same random_state as an earlier successful call (the
\* kept fit) assigns the same labels, whatever ran in between.
C2_ClusterDeterministic ==
  (result.op = "cluster" /\ result.ok /\ SameCall(remembered, sentence_df, result.ret.kmeans)) =>
    /\ result.ret.kmeans.labels = remembered.kmeans.labels
    /\ sentence_df.label.cells = remembered.kmeans.labels

\* C2 witness: a second fit of two distinct embeddings into two clusters was
\* compared with a kept earlier one, the process-wide generator having moved.
C2_Witness ==
  /\ compared
  /\ result.op = "cluster" /\ result.ok
  /\ result.n_clusters = 2
  /\ sentence_df.embedding.cells[1] # sentence_df.embedding.cells[2]
  /\ py_random # RandomState(DefaultSeed)

\* C3: after a successful cluster(n_clusters, seed) every record carries one
\* label, every label is in 0 .. n_clusters - 1, and the call returned the
\* frame together with the fitted model (n_clusters centres, the same labels).
C3_LabelsInRange ==
  (result.op = "cluster" /\ result.ok) =>
    /\ 1 <= result.n_clusters /\ result.n_clusters <= NRecords
    /\ HasLabel
    /\ Len(sentence_df.label.cells) = NRecords
    /\ \A i \in 1 .. NRecords : sentence_df.label.cells[i] \in 0 .. (result.n_clusters - 1)
    /\ result.ret.df = "self.sentence_df"
    /\ result.ret.kmeans.labels = sentence_df.label.cells
    /\ Len(result.ret.kmeans.centers) = result.n_clusters

\* C3 witness: two records were split into two clusters, both labels in use.
C3_Witness ==
  /\ result.op = "cluster" /\ result.ok
  /\ NRecords = 2 /\ result.n_clusters = 2
  /\ {sentence_df.label.cells[i] : i \in 1 .. NRecords} = {0, 1}

\* an n_clusters that is not positive or exceeds the record count, or an empty
\* embedding set
InvalidClusterCall ==
  /\ result.op = "cluster"
  /\ HasEmbedding
  /\ Rectangular(sentence_df.embedding.cells)
  /\ \/ result.n_clusters <= 0
     \/ result.n_clusters > NRecords
     \/ NRecords = 0

\* C4: a cluster call with an invalid n_clusters, or on an empty embedding
\* set, fails with a parameter error raised before KMeans.fit is entered.
C4_InvalidParametersFailFast ==
  InvalidClusterCall =>
    /\ ~result.ok
    /\ result.exc = "ParameterError"
    /\ result.at # "KMeans.fit"

\* C5: when get_embeddings has run on a collection with a missing segment
\* file, the call failed with a resolution error naming the first record whose
\* file is missing.
C5_MissingSegmentNamed ==
  (result.op = "get_embeddings" /\ ~AllSegmentsExist) =>
    /\ ~result.ok
    /\ result.exc = "ResolutionError"
    /\ result.rec \in 1 .. NRecords
    /\ ~SegmentExists(sentence_df.hash[result.rec])
    /\ \A i \in 1 .. (result.rec - 1) : SegmentExists(sentence_df.hash[i])

\* C6: a weight file found missing or incompatible makes __init__ fail, for the
\* default and for an explicit path; an object is ready only with weights that
\* were read and loaded; after a failed load get_embeddings cannot be called.
C6_InitFailsOnBadWeights ==
  /\ weight_seen \in {"missing", "incompatible"} =>
       pc = "failed" /\ result.op = "__init__" /\ ~result.ok /\ weights = None
  /\ pc = "ready" => weight_seen = "ok" /\ weights \in {DefaultPath, CustomPath}
  /\ weight_seen # "ok" => ~ENABLED GetEmbeddings

\* C6 witness: construction failed on an incompatible weight file.
C6_Witness ==
  /\ pc = "failed"
  /\ weight_seen = "incompatible"
  /\ result.op = "__init__" /\ result.exc = "ValueError"

FrameStep ==
  /\ sentence_df'.hash = sentence_df.hash
  /\ sentence_df'.sentence = sentence_df.sentence
  /\ result'.op = "get_embeddings" => sentence_df'.label = sentence_df.label
  /\ result'.op = "cluster" => sentence_df'.embedding = sentence_df.embedding
  /\ result'.op \in {"generate_scatter_3d", "__init__"} => sentence_df' = sentence_df

\* C8: the collection always holds the records it was constructed with, in
\* order, hash and sentence unchanged; get_embeddings changes only the
\* embedding column, cluster only the label column, generate_scatter_3d nothing.
C8_Frame ==
  /\ [](sentence_df.hash = input_df.hash /\ sentence_df.sentence = input_df.sentence)
  /\ [][FrameStep]_vars

\* C8 witness: the visualizer was called on a labelled two-record collection.
C8_Witness ==
  /\ result.op = "generate_scatter_3d"
  /\ HasLabel /\ NRecords = 2
  /\ sentence_df.sentence = input_df.sentence

\* C9: a cluster call on an embedding column of unequal vector lengths fails
\* in a shape check of its own, before np.array and before KMeans.fit.
C9_RaggedDetectedFirst ==
  (result.op = "cluster" /\ HasEmbedding /\ ~Rectangular(sentence_df.embedding.cells)) =>
    /\ ~result.ok
    /\ result.at \notin RaggedSites

\* a present column has one value per record, none of them missing
WholeColumns ==
  /\ HasEmbedding =>
       /\ Len(sentence_df.embedding.cells) = NRecords
       /\ \A i \in 1 .. NRecords : sentence_df.embedding.cells[i] # NaN
  /\ HasLabel => Len(sentence_df.label.cells) = NRecords

\* a failed get_embeddings or cluster leaves the collection as it was
FailedStep ==
  (result'.op \in {"get_embeddings", "cluster"} /\ ~result'.ok) => sentence_df' = sentence_df

\* C10: a get_embeddings or cluster call that fails leaves the collection
\* exactly as it was, and no column is ever filled for some records only.
C10_FailureAtomic == []WholeColumns /\ [][FailedStep]_vars

\* C10 witness: a re-run of cluster failed on a collection already labelled.
C10_Witness ==
  /\ result.op = "cluster" /\ ~result.ok
  /\ HasLabel /\ NRecords = 2
  /\ sentence_df.label.cells \in SeqsOfLen(0 .. 1, 2)

====
